---- MODULE Spec2Model ----
(***************************************************************************)
(* A model of the two Streamlit programs of the repository:                *)
(*   file_converter_app.py  the "Universal File Converter" (a selectbox of *)
(*                          conversion types, one uploader, one Convert    *)
(*                          button, an if/elif dispatch chain);            *)
(*   app.py                 the "IPYNB to PDF Converter" (an uploader, the *)
(*                          temp_files directory, convert_notebook_to_pdf).*)
(* A behaviour is the life of one Streamlit process, which runs one of the  *)
(* two scripts; each script run (one user interaction) is one action.  The *)
(* files the program writes are part of the state.  Labels are written     *)
(* with "->" where the source has the arrow U+2192.                        *)
(***************************************************************************)
EXTENDS Integers, Sequences, FiniteSets, TLC

VARIABLES
    program,      \* the script this Streamlit process runs: streamlit run <program>.py
    tmp,          \* files made by tempfile.NamedTemporaryFile(delete=False) still on disk
    temp_files,   \* the directory temp_files of app.py: path -> content (NoFile: absent)
    writers,      \* history: path of temp_files -> the uploads whose runs wrote it
    uploaded,     \* app.py: the file now held by st.file_uploader
    nreq,         \* number of requests (Convert clicks, uploads) so far
    last,         \* what the last script run did and showed
    rt            \* the CSV -> XLSX -> CSV pipeline of the tabular routines

vars == <<program, tmp, temp_files, writers, uploaded, nreq, last, rt>>

----------------------------------------------------------------------------
(* Bounds *)

MaxRequests == 2      \* requests in one behaviour
MaxPages == 3         \* pages of an uploaded PDF
MaxNames == 2         \* distinct names of uploaded notebooks
MaxContents == 2      \* distinct notebook contents
MaxRows == 2          \* data rows of a CSV table
MaxCols == 2          \* columns of a CSV table

----------------------------------------------------------------------------
(* file_converter_app.py: the route table *)

conversion_options ==
    [ l \in { "PNG -> JPG", "JPG -> PNG", "WebP -> PNG", "PNG -> WebP", "GIF -> PNG",
              "Image -> PDF", "PDF -> Images (JPG)", "IPYNB -> PDF", "TXT -> PDF",
              "DOCX -> PDF", "HTML -> PDF", "Markdown (.md) -> PDF", "CSV -> XLSX",
              "XLSX -> CSV", "JSON -> CSV", "CSV -> JSON" } |->
      CASE l = "PNG -> JPG"            -> <<"image", "JPG">>
        [] l = "JPG -> PNG"            -> <<"image", "PNG">>
        [] l = "WebP -> PNG"           -> <<"webp", "PNG">>
        [] l = "PNG -> WebP"           -> <<"png", "WebP">>
        [] l = "GIF -> PNG"            -> <<"gif", "PNG">>
        [] l = "Image -> PDF"          -> <<"image", "PDF">>
        [] l = "PDF -> Images (JPG)"   -> <<"pdf", "IMG">>
        [] l = "IPYNB -> PDF"          -> <<"ipynb", "PDF">>
        [] l = "TXT -> PDF"            -> <<"txt", "PDF">>
        [] l = "DOCX -> PDF"           -> <<"docx", "PDF">>
        [] l = "HTML -> PDF"           -> <<"html", "PDF">>
        [] l = "Markdown (.md) -> PDF" -> <<"md", "PDF">>
        [] l = "CSV -> XLSX"           -> <<"csv", "XLSX">>
        [] l = "XLSX -> CSV"           -> <<"xlsx", "CSV">>
        [] l = "JSON -> CSV"           -> <<"json", "CSV">>
        [] l = "CSV -> JSON"           -> <<"csv", "JSON">> ]

\* list(conversion_options.keys()): what st.selectbox lets the user select
SelectableTypes == DOMAIN conversion_options

input_type(conversion_type) == conversion_options[conversion_type][1]
output_ext(conversion_type) == conversion_options[conversion_type][2]

----------------------------------------------------------------------------
(* Uploaded files.  st.file_uploader(type=None) accepts a file of any kind. *)
(* "bin" is a file that is of none of the kinds (corrupt or unknown bytes). *)

ImageKinds == {"png", "jpg", "webp", "gif"}
TextKinds == {"txt", "html", "md", "csv", "json", "ipynb"}   \* decode as UTF-8
FileKinds == ImageKinds \cup TextKinds \cup {"pdf", "docx", "xlsx", "bin"}

UploadedFiles ==
    {[kind |-> k, pages |-> 0] : k \in FileKinds \ {"pdf"}}
        \cup {[kind |-> "pdf", pages |-> n] : n \in 0..MaxPages}

NoUploadedFile == [kind |-> "none", pages |-> 0]

----------------------------------------------------------------------------
(* Results of a routine: returned bytes (or a list), or a raised exception. *)

None == [fmt |-> "None", len |-> 0]
Bytes(fmt) == [fmt |-> fmt, len |-> 1]          \* a non-empty byte string
Return(value) == [ok |-> TRUE, value |-> value, images |-> <<>>, exc |-> "none"]
ReturnList(images) == [ok |-> TRUE, value |-> None, images |-> images, exc |-> "none"]
Raise(exc) == [ok |-> FALSE, value |-> None, images |-> <<>>, exc |-> exc]

\* str.upper() on the format names that reach Image.save
upper(s) ==
    CASE s = "WebP" -> "WEBP"
      [] OTHER -> s

\* The encoder names Image.save accepts (the keys of PIL's SAVE registry that
\* this program's formats touch): the program itself passes "JPEG" and "PDF".
SAVE == {"PNG", "JPEG", "WEBP", "GIF", "PDF"}

\* Image.save(buffer, format=f): SAVE[f.upper()], a KeyError when absent
Image_save(format) ==
    IF upper(format) \in SAVE THEN Return(Bytes(upper(format))) ELSE Raise("KeyError")

convert_image_to_format(image, target_format) ==
    IF image.kind \notin ImageKinds
        THEN Raise("UnidentifiedImageError")
        ELSE Image_save(target_format)

\* PDFExporter().from_filename: reads the notebook, then runs xelatex
convert_ipynb_to_pdf(uploaded_file, tools) ==
    IF uploaded_file.kind # "ipynb" THEN Raise("NotJSONError")
    ELSE IF ~tools THEN Raise("OSError: xelatex not found on PATH")
    ELSE Return(Bytes("PDF"))

convert_text_to_pdf(text_file) ==
    IF text_file.kind \in TextKinds THEN Return(Bytes("PDF")) ELSE Raise("UnicodeDecodeError")

convert_docx_to_pdf(file) ==
    IF file.kind = "docx" THEN Return(Bytes("PDF")) ELSE Raise("PackageNotFoundError")

convert_csv_to_xlsx(file) ==
    IF file.kind = "csv" THEN Return(Bytes("XLSX")) ELSE Raise("ParserError")

convert_xlsx_to_csv(file) ==
    IF file.kind = "xlsx" THEN Return(Bytes("CSV")) ELSE Raise("BadZipFile")

convert_json_to_csv(json_file) ==
    IF json_file.kind = "json" THEN Return(Bytes("CSV")) ELSE Raise("ValueError")

convert_csv_to_json(csv_file) ==
    IF csv_file.kind = "csv" THEN Return(Bytes("JSON")) ELSE Raise("ParserError")

\* The page name with enumerate's index used as it is: f"page_{i}.jpg"
page_name_ZeroBased(i) == "page_" \o ToString(i) \o ".jpg"

\* f"page_{i+1}.jpg" for i, img in enumerate(images)
page_name(i) == "page_" \o ToString(i + 1) \o ".jpg"

\* convert_from_path(tmp.name): the rendered pages of the PDF, in page order
convert_from_path(file) == [p \in 1..file.pages |-> [page |-> p]]

\* img.save(buffer, format="JPEG"); buffer.getvalue()
JPEG(img) == [fmt |-> "JPEG", len |-> 1, page |-> img.page]

\* convert_from_path needs poppler and a PDF; one JPEG per page, in page order
convert_pdf_to_images(file, tools) ==
    IF ~tools THEN Raise("PDFInfoNotInstalledError")
    ELSE IF file.kind # "pdf" THEN Raise("PDFPageCountError")
    ELSE ReturnList([i \in 1..file.pages |->
                        [name |-> page_name(i - 1), data |-> JPEG(convert_from_path(file)[i])]])

image_to_pdf(file) ==
    IF file.kind \in ImageKinds THEN Image_save("PDF") ELSE Raise("UnidentifiedImageError")

convert_html_to_pdf(html_file) ==
    IF html_file.kind \in TextKinds THEN Return(Bytes("PDF")) ELSE Raise("UnicodeDecodeError")

convert_markdown_to_pdf(md_file) ==
    IF md_file.kind \in TextKinds THEN Return(Bytes("PDF")) ELSE Raise("UnicodeDecodeError")

\* The routines that open a NamedTemporaryFile(delete=False, suffix=...) and the
\* suffix they give it; the file is written before the library is called and
\* no code of the program unlinks it.
NamedTemporaryFile(routine) ==
    CASE routine = "convert_ipynb_to_pdf"  -> {".ipynb"}
      [] routine = "convert_pdf_to_images" -> {".pdf"}
      [] OTHER -> {}

----------------------------------------------------------------------------
(* file_converter_app.py: the dispatch chain, in source order *)

\* The chain with "Image -> PDF" also listed in the first branch's label list,
\* which then shadows the image_to_pdf branch
chain_ImagePdfShadowed ==
    << [labels  |-> {"PNG -> JPG", "JPG -> PNG", "WebP -> PNG", "GIF -> PNG", "PNG -> WebP",
                     "Image -> PDF"},
        routine |-> "convert_image_to_format"],
       [labels |-> {"IPYNB -> PDF"},          routine |-> "convert_ipynb_to_pdf"],
       [labels |-> {"TXT -> PDF"},            routine |-> "convert_text_to_pdf"],
       [labels |-> {"DOCX -> PDF"},           routine |-> "convert_docx_to_pdf"],
       [labels |-> {"HTML -> PDF"},           routine |-> "convert_html_to_pdf"],
       [labels |-> {"Markdown (.md) -> PDF"}, routine |-> "convert_markdown_to_pdf"],
       [labels |-> {"CSV -> XLSX"},           routine |-> "convert_csv_to_xlsx"],
       [labels |-> {"XLSX -> CSV"},           routine |-> "convert_xlsx_to_csv"],
       [labels |-> {"JSON -> CSV"},           routine |-> "convert_json_to_csv"],
       [labels |-> {"CSV -> JSON"},           routine |-> "convert_csv_to_json"],
       [labels |-> {"PDF -> Images (JPG)"},   routine |-> "convert_pdf_to_images"],
       [labels |-> {"Image -> PDF"},          routine |-> "image_to_pdf"] >>

chain ==
    << [labels  |-> {"PNG -> JPG", "JPG -> PNG", "WebP -> PNG", "GIF -> PNG", "PNG -> WebP"},
        routine |-> "convert_image_to_format"],
       [labels |-> {"IPYNB -> PDF"},          routine |-> "convert_ipynb_to_pdf"],
       [labels |-> {"TXT -> PDF"},            routine |-> "convert_text_to_pdf"],
       [labels |-> {"DOCX -> PDF"},           routine |-> "convert_docx_to_pdf"],
       [labels |-> {"HTML -> PDF"},           routine |-> "convert_html_to_pdf"],
       [labels |-> {"Markdown (.md) -> PDF"}, routine |-> "convert_markdown_to_pdf"],
       [labels |-> {"CSV -> XLSX"},           routine |-> "convert_csv_to_xlsx"],
       [labels |-> {"XLSX -> CSV"},           routine |-> "convert_xlsx_to_csv"],
       [labels |-> {"JSON -> CSV"},           routine |-> "convert_json_to_csv"],
       [labels |-> {"CSV -> JSON"},           routine |-> "convert_csv_to_json"],
       [labels |-> {"PDF -> Images (JPG)"},   routine |-> "convert_pdf_to_images"],
       [labels |-> {"Image -> PDF"},          routine |-> "image_to_pdf"] >>

\* The branches whose test a conversion type satisfies
Matching(conversion_type) ==
    LET c == chain IN {i \in DOMAIN c : conversion_type \in c[i].labels}

\* if/elif: the first matching branch runs, 0 when none does
Branch(conversion_type) ==
    LET m == Matching(conversion_type)
    IN  IF m = {} THEN 0 ELSE CHOOSE i \in m : \A j \in m : i <= j

\* The calls the chain makes for a conversion type
Invoked(conversion_type) ==
    LET b == Branch(conversion_type)
    IN  IF b = 0 THEN <<>> ELSE <<chain[b].routine>>

Call(routine, file, ext, tools) ==
    CASE routine = "convert_image_to_format" -> convert_image_to_format(file, ext)
      [] routine = "convert_ipynb_to_pdf"    -> convert_ipynb_to_pdf(file, tools)
      [] routine = "convert_text_to_pdf"     -> convert_text_to_pdf(file)
      [] routine = "convert_docx_to_pdf"     -> convert_docx_to_pdf(file)
      [] routine = "convert_html_to_pdf"     -> convert_html_to_pdf(file)
      [] routine = "convert_markdown_to_pdf" -> convert_markdown_to_pdf(file)
      [] routine = "convert_csv_to_xlsx"     -> convert_csv_to_xlsx(file)
      [] routine = "convert_xlsx_to_csv"     -> convert_xlsx_to_csv(file)
      [] routine = "convert_json_to_csv"     -> convert_json_to_csv(file)
      [] routine = "convert_csv_to_json"     -> convert_csv_to_json(file)
      [] routine = "convert_pdf_to_images"   -> convert_pdf_to_images(file, tools)
      [] routine = "image_to_pdf"            -> image_to_pdf(file)

\* The body of the try block up to the final if: result = None, then the chain
Dispatch(conversion_type, file, tools) ==
    LET calls == Invoked(conversion_type)
    IN  IF calls = <<>> THEN Return(None)
        ELSE Call(calls[1], file, output_ext(conversion_type), tools)

\* A boundary that names the exception classes it expects instead of Exception
Caught_ValueErrorOnly(exc) == exc \in {"ValueError", "ParserError"}

\* except Exception as e: every exception a routine raises is an Exception
Caught(exc) == exc # "none"

\* str.lower() on the output extensions of the route table
lower(s) ==
    CASE s = "JPG" -> "jpg"   [] s = "PNG" -> "png"   [] s = "WebP" -> "webp"
      [] s = "PDF" -> "pdf"   [] s = "IMG" -> "img"   [] s = "XLSX" -> "xlsx"
      [] s = "CSV" -> "csv"   [] s = "JSON" -> "json"

\* f"{filename}_converted.{output_ext.lower()}", filename being the upload's stem
download_name(conversion_type) == "upload_converted." \o lower(output_ext(conversion_type))

\* The download buttons of one run: one per page image inside the
\* "PDF -> Images (JPG)" branch, then "if result and conversion_type != ...".
Downloads(conversion_type, r) ==
    IF ~r.ok THEN <<>>
    ELSE [i \in DOMAIN r.images |-> [name |-> r.images[i].name, data |-> r.images[i].data]]
         \o (IF r.value.len > 0 /\ conversion_type # "PDF -> Images (JPG)"
                THEN << [name |-> download_name(conversion_type), data |-> r.value] >>
                ELSE <<>>)

\* The routines that start an external binary (xelatex, poppler's pdfinfo and
\* pdftoppm); no other routine looks at the PATH, so the state of the PATH is
\* enumerated only for the conversion types that reach one of these.
ShellsOut == {"convert_ipynb_to_pdf", "convert_pdf_to_images"}
PathStates(conversion_type) ==
    IF \E i \in DOMAIN Invoked(conversion_type) : Invoked(conversion_type)[i] \in ShellsOut
        THEN BOOLEAN ELSE {TRUE}

\* What a script run leaves in `last`
Idle ==
    [app |-> "none", conversion_type |-> "none", file |-> NoUploadedFile, tools |-> TRUE,
     invoked |-> <<>>, exc |-> "none", escaped |-> FALSE, error |-> "none",
     downloads |-> <<>>, created |-> {}, upload |-> 0]

\* file_converter_app.py, "if uploaded_file and st.button('Convert')": one click of
\* Convert with a conversion type selected and a file uploaded.  tools: whether
\* the external binaries (xelatex, poppler) are on the PATH of the machine.
Convert(conversion_type, file, tools) ==
    /\ program = "file_converter_app"
    /\ nreq < MaxRequests
    /\ LET calls == Invoked(conversion_type)
           r == Dispatch(conversion_type, file, tools)
           made == {[suffix |-> s, id |-> nreq + 1] :
                        s \in UNION {NamedTemporaryFile(calls[i]) : i \in DOMAIN calls}}
       IN /\ tmp' = tmp \cup made
          /\ last' = [app |-> "file_converter_app", conversion_type |-> conversion_type,
                      file |-> file, tools |-> tools,
                      invoked |-> calls,
                      exc |-> r.exc,
                      escaped |-> ~r.ok /\ ~Caught(r.exc),
                      error |-> IF ~r.ok /\ Caught(r.exc)
                                   THEN "Conversion failed: " \o r.exc ELSE "none",
                      downloads |-> Downloads(conversion_type, r),
                      created |-> made, upload |-> 0]
    /\ nreq' = nreq + 1
    /\ UNCHANGED <<program, temp_files, writers, uploaded, rt>>

----------------------------------------------------------------------------
(* app.py: the notebook converter and its directory temp_files *)

Names == 1..MaxNames                 \* the names a notebook is uploaded under
Contents == 0..MaxContents           \* notebook bytes; 0: not a valid notebook
UploadIds == 1..MaxRequests

NotebookStem(n) == "nb" \o ToString(n)
\* os.path.join(temp_dir, uploaded_file.name)
input_path(n) == "temp_files/" \o NotebookStem(n) \o ".ipynb"
\* os.path.join(temp_dir, f"{file_base_name}.pdf")
output_path(n) == "temp_files/" \o NotebookStem(n) \o ".pdf"
\* os.path.basename(output_path)
basename(n) == NotebookStem(n) \o ".pdf"

Paths == {input_path(n) : n \in Names} \cup {output_path(n) : n \in Names}

NoFile == [type |-> "absent", body |-> 0]
NotebookFile(c) == [type |-> "ipynb", body |-> c]
\* pdf_exporter.from_notebook_node(nb): the PDF of a notebook
PdfFile(c) == [type |-> "pdf", body |-> c]

NoUpload == [id |-> 0, name |-> 0, content |-> 0]

\* The try block of convert_notebook_to_pdf: what it returns or raises, and the
\* file system it leaves.  template: notitle.tplx is beside the script;
\* latex: xelatex is on the PATH.
notebook_try(fs, n, template, latex) ==
    IF ~template
        THEN [ret |-> "False: template not found", exc |-> "none", fs |-> fs]
    ELSE IF fs[input_path(n)].type = "absent"
        THEN [ret |-> "none", exc |-> "FileNotFoundError", fs |-> fs]
    ELSE IF fs[input_path(n)].body = 0
        THEN [ret |-> "none", exc |-> "NotJSONError", fs |-> fs]
    ELSE IF ~latex
        THEN [ret |-> "none", exc |-> "OSError: xelatex not found on PATH", fs |-> fs]
    ELSE [ret |-> "True", exc |-> "none",
          fs |-> [fs EXCEPT ![output_path(n)] = PdfFile(fs[input_path(n)].body)]]

\* The two except clauses: the message each raised exception is turned into;
\* the second clause, except Exception, takes every exception the first leaves
notebook_except(exc) ==
    CASE exc = "FileNotFoundError" -> "False: file not found"
      [] exc = "OSError: xelatex not found on PATH" -> "False: LaTeX is not installed"
      [] OTHER -> "False: An unexpected error occurred"

\* The (False, message) returns of the except clauses
NotebookMessages ==
    {"False: file not found", "False: LaTeX is not installed",
     "False: An unexpected error occurred"}

\* convert_notebook_to_pdf(input_path, output_path): (success, message) and the
\* file system afterwards
convert_notebook_to_pdf(fs, n, template, latex) ==
    LET t == notebook_try(fs, n, template, latex)
        msg == IF t.exc = "none" THEN t.ret ELSE notebook_except(t.exc)
    IN  [success |-> msg = "True", message |-> msg, exc |-> t.exc,
         escaped |-> t.exc # "none" /\ msg \notin NotebookMessages, fs |-> t.fs]

\* with open(input_path, "wb") as f: f.write(uploaded_file.getbuffer())
save_upload(fs, up) == [fs EXCEPT ![input_path(up.name)] = NotebookFile(up.content)]

\* The user puts a file into the uploader; main() runs with the button not
\* clicked and saves the upload under temp_files.
Upload(name, content) ==
    /\ program = "app"
    /\ nreq < MaxRequests
    /\ LET up == [id |-> nreq + 1, name |-> name, content |-> content]
       IN /\ uploaded' = up
          /\ temp_files' = save_upload(temp_files, up)
          /\ writers' = [writers EXCEPT ![input_path(name)] = @ \cup {up.id}]
          /\ last' = [Idle EXCEPT !.app = "app", !.created = {input_path(name)},
                                  !.upload = up.id]
    /\ nreq' = nreq + 1
    /\ UNCHANGED <<program, tmp, rt>>

\* The user clicks "Convert to PDF"; main() runs again: it saves the upload
\* again, converts, and on success reads the output file for the download.
ConvertToPDF(template, latex) ==
    /\ program = "app"
    /\ uploaded # NoUpload
    /\ LET n == uploaded.name
           saved == save_upload(temp_files, uploaded)
           c == convert_notebook_to_pdf(saved, n, template, latex)
           wrote == {input_path(n)} \cup {p \in {output_path(n)} : c.fs[p] # saved[p]}
       IN /\ temp_files' = c.fs
          /\ writers' = [p \in Paths |->
                            IF p \in wrote THEN writers[p] \cup {uploaded.id} ELSE writers[p]]
          /\ last' = [Idle EXCEPT
                        !.app = "app", !.conversion_type = "IPYNB -> PDF",
                        !.file = [kind |-> "ipynb", pages |-> 0],
                        !.tools = latex,
                        !.invoked = <<"convert_notebook_to_pdf">>,
                        !.exc = c.exc,
                        !.escaped = c.escaped,
                        !.error = IF c.success THEN "none" ELSE c.message,
                        !.downloads = IF c.success
                                         THEN << [name |-> basename(n),
                                                  data |-> c.fs[output_path(n)]] >>
                                         ELSE <<>>,
                        !.created = {p \in wrote : c.fs[p].type # "absent"},
                        !.upload = uploaded.id]
    /\ UNCHANGED <<program, tmp, uploaded, nreq, rt>>

----------------------------------------------------------------------------
(* The tabular routines on tables: pandas' read_csv / to_excel / read_excel /  *)
(* to_csv with the arguments the program passes (defaults but index=False).   *)
(* A CSV file is its sequence of lines, a line its sequence of fields; every  *)
(* line has as many fields as the header.                                     *)

HeaderTokens == {"a", "b"}
CellTokens == {"", "NA", "x", "7", "07"}

CsvFiles ==
    UNION { { <<h>> \o r : h \in [1..m -> HeaderTokens],
                           r \in UNION {[1..n -> [1..m -> CellTokens]] : n \in 0..MaxRows} }
            : m \in 1..MaxCols }

\* read_csv, keep_default_na=True: the fields read as missing (those in CellTokens)
NA_VALUES == {"", "NA"}
\* fields the parser reads as an integer, and the integer's digits
IsNumber(s) == s \in {"7", "07"}
Digits(s) == IF s = "07" THEN "7" ELSE s

NaN == [t |-> "nan", v |-> ""]

\* read_csv renames a repeated column name h to h.1, h.2, ...
mangle_dupe_cols(header) ==
    [j \in DOMAIN header |->
        LET k == Cardinality({i \in 1..(j - 1) : header[i] = header[j]})
        IN  IF k = 0 THEN header[j] ELSE header[j] \o "." \o ToString(k)]

\* The values of column j of the parsed fields: int64 when every field is a
\* number, float64 when the others are missing, else object (strings, NaN)
infer_column(fields) ==
    LET present == {i \in DOMAIN fields : fields[i] \notin NA_VALUES}
        numeric == \A i \in present : IsNumber(fields[i])
        dtype == IF ~numeric THEN "str" ELSE IF present = DOMAIN fields THEN "int" ELSE "float"
    IN  [i \in DOMAIN fields |->
            IF i \notin present THEN NaN
            ELSE [t |-> dtype, v |-> IF numeric THEN Digits(fields[i]) ELSE fields[i]]]

\* df = pd.read_csv(file)
read_csv(csv) ==
    LET header == csv[1]
        n == Len(csv) - 1
        col(j) == infer_column([i \in 1..n |-> csv[i + 1][j]])
    IN  [columns |-> mangle_dupe_cols(header),
         data |-> [i \in 1..n |-> [j \in DOMAIN header |-> col(j)[i]]]]

\* df.to_excel(output, index=False): a header row, then one row per record;
\* a number is a numeric cell, NaN an empty cell
to_excel(df) ==
    [header |-> df.columns,
     rows |-> [i \in DOMAIN df.data |->
                 [j \in DOMAIN df.columns |->
                    LET x == df.data[i][j]
                    IN  CASE x.t = "nan" -> [t |-> "empty", v |-> ""]
                          [] x.t \in {"int", "float"} -> [t |-> "n", v |-> x.v]
                          [] OTHER -> [t |-> "s", v |-> x.v]]]]

\* df = pd.read_excel(file): empty cells are NaN; a numeric column is int64,
\* or float64 when it has a NaN
read_excel(xlsx) ==
    LET n == Len(xlsx.rows)
        col(j) ==
            LET cells == [i \in 1..n |-> xlsx.rows[i][j]]
                present == {i \in 1..n : cells[i].t # "empty"}
                numeric == \A i \in present : cells[i].t = "n"
                dtype == IF ~numeric THEN "str" ELSE IF present = 1..n THEN "int" ELSE "float"
            IN  [i \in 1..n |-> IF i \notin present THEN NaN
                                ELSE [t |-> IF cells[i].t = "n" THEN dtype ELSE "str",
                                      v |-> cells[i].v]]
    IN  [columns |-> mangle_dupe_cols(xlsx.header),
         data |-> [i \in 1..n |-> [j \in DOMAIN xlsx.header |-> col(j)[i]]]]

\* df.to_csv(output, index=False): the header line, then a line per record
to_csv(df) ==
    <<df.columns>> \o
    [i \in DOMAIN df.data |->
        [j \in DOMAIN df.columns |->
            LET x == df.data[i][j]
            IN  CASE x.t = "nan" -> ""
                  [] x.t = "float" -> x.v \o ".0"
                  [] OTHER -> x.v]]

\* convert_csv_to_xlsx on a CSV file that parses
csv_to_xlsx(csv) == to_excel(read_csv(csv))
\* convert_xlsx_to_csv on a workbook
xlsx_to_csv(xlsx) == to_csv(read_excel(xlsx))

NoBook == [header |-> <<>>, rows |-> <<>>]
NoPipeline == [stage |-> "idle", csv |-> <<>>, xlsx |-> NoBook, out |-> <<>>]

\* "CSV -> XLSX" on the CSV file of the pipeline
CsvToXlsx ==
    /\ rt.stage = "csv"
    /\ rt' = [rt EXCEPT !.stage = "xlsx", !.xlsx = csv_to_xlsx(rt.csv)]
    /\ UNCHANGED <<program, tmp, temp_files, writers, uploaded, nreq, last>>

\* "XLSX -> CSV" on the workbook the first conversion produced
XlsxToCsv ==
    /\ rt.stage = "xlsx"
    /\ rt' = [rt EXCEPT !.stage = "done", !.out = xlsx_to_csv(rt.xlsx)]
    /\ UNCHANGED <<program, tmp, temp_files, writers, uploaded, nreq, last>>

----------------------------------------------------------------------------
(* Specifications *)

Programs == {"file_converter_app", "app"}

Init ==
    /\ program \in Programs
    /\ tmp = {}
    /\ temp_files = [p \in Paths |-> NoFile]
    /\ writers = [p \in Paths |-> {}]
    /\ uploaded = NoUpload
    /\ nreq = 0
    /\ last = Idle
    /\ rt = NoPipeline

Next ==
    \/ \E conversion_type \in SelectableTypes, file \in UploadedFiles :
            \E tools \in PathStates(conversion_type) : Convert(conversion_type, file, tools)
    \/ \E name \in Names, content \in Contents : Upload(name, content)
    \/ \E template \in BOOLEAN, latex \in BOOLEAN : ConvertToPDF(template, latex)

Spec == Init /\ [][Next]_vars

\* The round trip of the tabular routines, from every CSV file within the bounds
InitRoundTrip ==
    /\ program = "file_converter_app"
    /\ tmp = {}
    /\ temp_files = [p \in Paths |-> NoFile]
    /\ writers = [p \in Paths |-> {}]
    /\ uploaded = NoUpload
    /\ nreq = 0
    /\ last = Idle
    /\ rt \in {[NoPipeline EXCEPT !.stage = "csv", !.csv = f] : f \in CsvFiles}

NextRoundTrip == CsvToXlsx \/ XlsxToCsv

SpecRoundTrip == InitRoundTrip /\ [][NextRoundTrip]_vars

----------------------------------------------------------------------------
(* What the labels of the route table name: the kinds of file a conversion  *)
(* type is for, and the format (by file signature) it is to produce.        *)

label_source(l) ==
    CASE l \in {"PNG -> JPG", "PNG -> WebP"} -> {"png"}
      [] l = "JPG -> PNG"            -> {"jpg"}
      [] l = "WebP -> PNG"           -> {"webp"}
      [] l = "GIF -> PNG"            -> {"gif"}
      [] l = "Image -> PDF"          -> ImageKinds
      [] l = "PDF -> Images (JPG)"   -> {"pdf"}
      [] l = "IPYNB -> PDF"          -> {"ipynb"}
      [] l = "TXT -> PDF"            -> {"txt"}
      [] l = "DOCX -> PDF"           -> {"docx"}
      [] l = "HTML -> PDF"           -> {"html"}
      [] l = "Markdown (.md) -> PDF" -> {"md"}
      [] l \in {"CSV -> XLSX", "CSV -> JSON"} -> {"csv"}
      [] l = "XLSX -> CSV"           -> {"xlsx"}
      [] l = "JSON -> CSV"           -> {"json"}

label_target(l) ==
    CASE l \in {"PNG -> JPG", "PDF -> Images (JPG)"} -> "JPEG"
      [] l \in {"JPG -> PNG", "WebP -> PNG", "GIF -> PNG"} -> "PNG"
      [] l = "PNG -> WebP" -> "WEBP"
      [] l = "CSV -> XLSX" -> "XLSX"
      [] l \in {"XLSX -> CSV", "JSON -> CSV"} -> "CSV"
      [] l = "CSV -> JSON" -> "JSON"
      [] OTHER -> "PDF"

\* The routine written for a source and a target: by the routines' names and
\* by what each opens and produces
RoutineFor(l) ==
    CASE label_source(l) \subseteq ImageKinds /\ label_target(l) # "PDF" -> "convert_image_to_format"
      [] label_source(l) \subseteq ImageKinds /\ label_target(l) = "PDF" -> "image_to_pdf"
      [] label_source(l) = {"pdf"}   -> "convert_pdf_to_images"
      [] label_source(l) = {"ipynb"} -> "convert_ipynb_to_pdf"
      [] label_source(l) = {"txt"}   -> "convert_text_to_pdf"
      [] label_source(l) = {"docx"}  -> "convert_docx_to_pdf"
      [] label_source(l) = {"html"}  -> "convert_html_to_pdf"
      [] label_source(l) = {"md"}    -> "convert_markdown_to_pdf"
      [] label_source(l) = {"csv"} /\ label_target(l) = "XLSX" -> "convert_csv_to_xlsx"
      [] label_source(l) = {"csv"} /\ label_target(l) = "JSON" -> "convert_csv_to_json"
      [] label_source(l) = {"xlsx"}  -> "convert_xlsx_to_csv"
      [] label_source(l) = {"json"}  -> "convert_json_to_csv"

\* The last run was a click of Convert in file_converter_app.py
Converted == last.app = "file_converter_app"
\* The last run was a click of "Convert to PDF" in app.py
ConvertedNotebook == last.app = "app" /\ last.invoked # <<>>

----------------------------------------------------------------------------
(* Claims *)

\* C1: every scratch file a request creates (the NamedTemporaryFile of
\* convert_ipynb_to_pdf and convert_pdf_to_images, the input and output files
\* under temp_files) is removed when the request finishes, on every exit
\* path: between requests no scratch file exists.
C1_NoScratchFileRemains ==
    /\ tmp = {}
    /\ \A p \in Paths : temp_files[p] = NoFile

\* C2: for every declared conversion type, a valid sample of its source kind
\* (with the external binaries installed, a PDF with at least one page) is
\* converted: no error, at least one download, every download in the target
\* format.
C2_DeclaredPairsConvert ==
    (/\ Converted
     /\ last.file.kind \in label_source(last.conversion_type)
     /\ last.tools
     /\ last.file.kind = "pdf" => last.file.pages >= 1)
    => /\ last.error = "none"
       /\ last.downloads # <<>>
       /\ \A i \in DOMAIN last.downloads :
            last.downloads[i].data.fmt = label_target(last.conversion_type)

\* C3: when the uploaded file is not of the source kind of the selected
\* conversion type, the request ends in the UnsupportedConversion error and no
\* routine is invoked.
C3_UnsupportedPairRejected ==
    (Converted /\ last.file.kind \notin label_source(last.conversion_type))
    => /\ last.invoked = <<>>
       /\ last.error = "UnsupportedConversion"

\* C4: no failure escapes the boundary: every exception raised in a request is
\* turned into an error message and the request offers no download; and
\* convert_notebook_to_pdf reports success only with the output PDF of the
\* notebook of this very request written, which is what is then downloaded
\* (never a file left by an earlier, failed or successful, request).
C4_FailuresCaughtAtBoundary ==
    /\ ~last.escaped
    /\ last.exc # "none" => last.error # "none" /\ last.downloads = <<>>
    /\ (ConvertedNotebook /\ last.error = "none") =>
            /\ uploaded.content # 0
            /\ temp_files[output_path(uploaded.name)] = PdfFile(uploaded.content)
            /\ last.downloads = << [name |-> basename(uploaded.name),
                                    data |-> PdfFile(uploaded.content)] >>
    /\ (ConvertedNotebook /\ last.error # "none") => last.downloads = <<>>

\* A second request that fails in the encoder and is reported, after a first
\* request that left its temporary file
C4_Witness ==
    /\ nreq = 2
    /\ tmp # {}
    /\ last.exc = "KeyError"
    /\ last.error = "Conversion failed: KeyError"

\* C5: when xelatex is missing, an IPYNB -> PDF request ends with the dedicated
\* missing-tool message and leaves no file behind (no scratch input, no
\* output PDF).
C5_MissingToolLeavesNothing ==
    last.exc = "OSError: xelatex not found on PATH"
    => /\ last.error = "False: LaTeX is not installed"
       /\ last.created = {}

\* C6: PDF -> Images on a PDF of N pages (N >= 0) offers exactly N downloads, in
\* page order, the i-th (from 1) being page i under the name page_i.jpg.
C6_OneNamedImagePerPage ==
    (Converted /\ last.conversion_type = "PDF -> Images (JPG)" /\ last.exc = "none")
    => /\ last.file.kind = "pdf"
       /\ Len(last.downloads) = last.file.pages
       /\ \A i \in 1..last.file.pages :
            /\ last.downloads[i].name = "page_" \o ToString(i) \o ".jpg"
            /\ last.downloads[i].data.page = i
            /\ last.downloads[i].data.fmt = "JPEG"

\* A three-page PDF converted to three downloads
C6_Witness ==
    /\ Converted
    /\ last.conversion_type = "PDF -> Images (JPG)"
    /\ last.file.pages = 3
    /\ Len(last.downloads) = 3
    /\ last.downloads[3].name = "page_3.jpg"

\* C7: a scratch path written by one request is never written by another:
\* every path under temp_files has been written by the runs of one upload at
\* most.
C7_ScratchScopedToOneRequest ==
    \A p \in Paths : Cardinality(writers[p]) <= 1

\* Digits of a number field, with the ".0" of a float dropped
Numeric(s) ==
    CASE s \in {"7", "07", "7.0"} -> "7"
      [] OTHER -> s

\* C8: CSV -> XLSX -> CSV gives back the header row in its order and every cell
\* value in its row and column, up to the way a number is written; no row or
\* column is added or dropped.
C8_RoundTrip ==
    rt.stage = "done"
    => /\ Len(rt.out) = Len(rt.csv)
       /\ rt.out[1] = rt.csv[1]
       /\ \A i \in 2..Len(rt.csv) :
            /\ Len(rt.out[i]) = Len(rt.csv[i])
            /\ \A j \in DOMAIN rt.csv[i] : Numeric(rt.out[i][j]) = Numeric(rt.csv[i][j])

\* C9: every click of Convert in file_converter_app.py shows exactly one of: at
\* least one download, an error message.
C9_OneVisibleOutcome ==
    Converted => ((last.downloads # <<>>) # (last.error # "none"))

\* C10: every key of conversion_options is tested by exactly one branch of the
\* chain, every label a branch tests is a key, the branch of a key calls the
\* routine for the kinds the key names, and so every request calls exactly
\* one routine, that one.
C10_RouteTableAndChainAgree ==
    /\ \A l \in SelectableTypes :
            /\ Cardinality(Matching(l)) = 1
            /\ Invoked(l) = <<RoutineFor(l)>>
    /\ \A i \in DOMAIN chain : chain[i].labels \subseteq SelectableTypes
    /\ Converted => last.invoked = <<RoutineFor(last.conversion_type)>>

\* An Image -> PDF request, which ran image_to_pdf, the last branch of the chain
C10_Witness ==
    /\ Converted
    /\ last.conversion_type = "Image -> PDF"
    /\ last.invoked = <<"image_to_pdf">>
    /\ last.downloads # <<>>

====
